---- MODULE Spec2Model ----
(***************************************************************************)
(* Origin configuration of the edge service (src/config.rs): the catalog   *)
(* of storage origins, the content-path resolver, the lazily built         *)
(* POP -> origin table and the bucket-host region regex.                   *)
(*                                                                         *)
(* Rust &str values are TLA+ strings; starts_with, slicing and length are  *)
(* Len / SubSeq on them.                                                   *)
(***************************************************************************)
EXTENDS Integers, Sequences, FiniteSets, TLC

\* Longest file-name tail appended to a path head in the enumerated inputs.
MaxRestLen == 1

\* Number of concurrent request handlers in SpecConc.
NumThreads == 2

(***************************************************************************)
(* State                                                                   *)
(***************************************************************************)

VARIABLES
    POP_ORIGIN,     \* lazy_static cell of the POP table
    REGION_REGEX,   \* lazy_static cell of the compiled regex
    calls           \* per request handler: its latest call and what it returned

vars == <<POP_ORIGIN, REGION_REGEX, calls>>

(***************************************************************************)
(* Static configuration                                                    *)
(***************************************************************************)

DEFAULT_POP == "SJC"

EU_IMAGES_ORIGIN ==
    [backend_name |-> "eu_origin", bucket_name |-> "images-shobl-cache",
     bucket_host |-> "s3.eu-central-003.backblazeb2.com"]

US_IMAGES_ORIGIN ==
    [backend_name |-> "us_origin", bucket_name |-> "images-shobl-cache-us",
     bucket_host |-> "s3.us-west-004.backblazeb2.com"]

EU_GAMES_ORIGIN ==
    [backend_name |-> "eu_origin", bucket_name |-> "games-shobl",
     bucket_host |-> "s3.eu-central-003.backblazeb2.com"]

US_GAMES_ORIGIN ==
    [backend_name |-> "us_origin", bucket_name |-> "games-shobl-us",
     bucket_host |-> "s3.us-west-004.backblazeb2.com"]

EU_MUSIC_ORIGIN ==
    [backend_name |-> "eu_origin", bucket_name |-> "music-shobl",
     bucket_host |-> "s3.eu-central-003.backblazeb2.com"]

\* Slip: the US music record copied from the EU one, its host left unedited.
US_MUSIC_ORIGIN_euhost ==
    [backend_name |-> "us_origin", bucket_name |-> "music-shobl-us",
     bucket_host |-> "s3.eu-central-003.backblazeb2.com"]

US_MUSIC_ORIGIN ==
    [backend_name |-> "us_origin", bucket_name |-> "music-shobl-us",
     bucket_host |-> "s3.us-west-004.backblazeb2.com"]

EU_COMICS_ORIGIN ==
    [backend_name |-> "eu_origin", bucket_name |-> "comics-shobl",
     bucket_host |-> "s3.eu-central-003.backblazeb2.com"]

US_COMICS_ORIGIN ==
    [backend_name |-> "us_origin", bucket_name |-> "comics-shobl-us",
     bucket_host |-> "s3.us-west-004.backblazeb2.com"]

EU_VIDEOS_ORIGIN ==
    [backend_name |-> "eu_origin", bucket_name |-> "videos-shobl",
     bucket_host |-> "s3.eu-central-003.backblazeb2.com"]

US_VIDEOS_ORIGIN ==
    [backend_name |-> "us_origin", bucket_name |-> "videos-shobl-us",
     bucket_host |-> "s3.us-west-004.backblazeb2.com"]

EU_ART_ORIGIN ==
    [backend_name |-> "eu_origin", bucket_name |-> "art-shobl",
     bucket_host |-> "s3.eu-central-003.backblazeb2.com"]

\* Slip: the US art record with its bucket name never filled in.
US_ART_ORIGIN_blank ==
    [backend_name |-> "us_origin", bucket_name |-> "",
     bucket_host |-> "s3.us-west-004.backblazeb2.com"]

US_ART_ORIGIN ==
    [backend_name |-> "us_origin", bucket_name |-> "art-shobl-us",
     bucket_host |-> "s3.us-west-004.backblazeb2.com"]

EU_PUBLIC_IMAGES_ORIGIN ==
    [backend_name |-> "eu_origin", bucket_name |-> "images-public-seo",
     bucket_host |-> "s3.eu-central-003.backblazeb2.com"]

US_PUBLIC_IMAGES_ORIGIN ==
    [backend_name |-> "us_origin", bucket_name |-> "images-public-seo-us",
     bucket_host |-> "s3.us-west-004.backblazeb2.com"]

EU_ORIGIN == EU_IMAGES_ORIGIN

\* Slip: the legacy US default bound to the games bucket.
US_ORIGIN_games == US_GAMES_ORIGIN

\* Slip: the legacy US default bound to the EU record.
US_ORIGIN_eu == EU_IMAGES_ORIGIN

US_ORIGIN == US_IMAGES_ORIGIN

\* The array literal handed to HashMap::from, in source order.
POP_ORIGIN_entries == <<
    <<"AMS", EU_ORIGIN>>,
    <<"WDC", US_ORIGIN>>,
    <<"IAD", US_ORIGIN>>,
    <<"BWI", US_ORIGIN>>,
    <<"DCA", US_ORIGIN>>,
    <<"ATL", US_ORIGIN>>,
    <<"FTY", US_ORIGIN>>,
    <<"PDK", US_ORIGIN>>,
    <<"AKL", US_ORIGIN>>,
    <<"BOG", US_ORIGIN>>,
    <<"BOS", US_ORIGIN>>,
    <<"BNE", US_ORIGIN>>,
    <<"EZE", US_ORIGIN>>,
    <<"CPT", EU_ORIGIN>>,
    <<"MAA", US_ORIGIN>>,
    <<"ORD", US_ORIGIN>>,
    <<"LOT", US_ORIGIN>>,
    <<"CHI", US_ORIGIN>>,
    <<"MDW", US_ORIGIN>>,
    <<"PWK", US_ORIGIN>>,
    <<"CMH", US_ORIGIN>>,
    <<"LCK", US_ORIGIN>>,
    <<"CPH", EU_ORIGIN>>,
    <<"CWB", US_ORIGIN>>,
    <<"DFW", US_ORIGIN>>,
    <<"DAL", US_ORIGIN>>,
    <<"DEL", US_ORIGIN>>,
    <<"DEN", US_ORIGIN>>,
    <<"DTW", US_ORIGIN>>,
    <<"DXB", US_ORIGIN>>,
    <<"DUB", EU_ORIGIN>>,
    <<"FOR", US_ORIGIN>>,
    <<"FRA", EU_ORIGIN>>,
    <<"HHN", EU_ORIGIN>>,
    <<"FJR", US_ORIGIN>>,
    <<"GNV", US_ORIGIN>>,
    <<"ACC", EU_ORIGIN>>,
    <<"HEL", EU_ORIGIN>>,
    <<"HKG", US_ORIGIN>>,
    <<"HNL", US_ORIGIN>>,
    <<"IAH", US_ORIGIN>>,
    <<"HYD", US_ORIGIN>>,
    <<"JAX", US_ORIGIN>>,
    <<"JNB", EU_ORIGIN>>,
    <<"MCI", US_ORIGIN>>,
    <<"CCU", US_ORIGIN>>,
    <<"KUL", US_ORIGIN>>,
    <<"LIM", US_ORIGIN>>,
    <<"LCY", EU_ORIGIN>>,
    <<"LHR", EU_ORIGIN>>,
    <<"LON", EU_ORIGIN>>,
    <<"LGB", US_ORIGIN>>,
    <<"SMO", US_ORIGIN>>,
    <<"BUR", US_ORIGIN>>,
    <<"MAD", EU_ORIGIN>>,
    <<"MAN", EU_ORIGIN>>,
    <<"MNL", US_ORIGIN>>,
    <<"MRS", EU_ORIGIN>>,
    <<"MEL", US_ORIGIN>>,
    <<"MIA", US_ORIGIN>>,
    <<"MXP", EU_ORIGIN>>,
    <<"LIN", EU_ORIGIN>>,
    <<"MSP", US_ORIGIN>>,
    <<"STP", US_ORIGIN>>,
    <<"YUL", US_ORIGIN>>,
    <<"BOM", US_ORIGIN>>,
    <<"MUC", EU_ORIGIN>>,
    <<"LGA", US_ORIGIN>>,
    <<"EWR", US_ORIGIN>>,
    <<"ITM", US_ORIGIN>>,
    <<"OSL", EU_ORIGIN>>,
    <<"PAO", US_ORIGIN>>,
    <<"CDG", EU_ORIGIN>>,
    <<"PER", US_ORIGIN>>,
    <<"PHX", US_ORIGIN>>,
    <<"PDX", US_ORIGIN>>,
    <<"GIG", US_ORIGIN>>,
    <<"FCO", EU_ORIGIN>>,
    <<"SJC", US_ORIGIN>>,
    <<"SCL", US_ORIGIN>>,
    <<"CGH", US_ORIGIN>>,
    <<"GRU", US_ORIGIN>>,
    <<"SEA", US_ORIGIN>>,
    <<"BFI", US_ORIGIN>>,
    <<"ICN", US_ORIGIN>>,
    <<"QPG", US_ORIGIN>>,
    <<"SOF", EU_ORIGIN>>,
    <<"STL", US_ORIGIN>>,
    <<"BMA", EU_ORIGIN>>,
    <<"SYD", US_ORIGIN>>,
    <<"TYO", US_ORIGIN>>,
    <<"HND", US_ORIGIN>>,
    <<"NRT", US_ORIGIN>>,
    <<"YYZ", US_ORIGIN>>,
    <<"YVR", US_ORIGIN>>,
    <<"VIE", EU_ORIGIN>>,
    <<"WLG", US_ORIGIN>>
>>

\* HashMap::from(array): one value per key, a later pair replacing an earlier one.
HashMapFrom(pairs) ==
    [k \in {pairs[i][1] : i \in DOMAIN pairs} |->
        LET last == CHOOSE i \in DOMAIN pairs :
                        /\ pairs[i][1] = k
                        /\ \A j \in DOMAIN pairs : pairs[j][1] = k => j <= i
        IN  pairs[last][2]]

\* The value the POP_ORIGIN initialiser builds.
POP_ORIGIN_init == HashMapFrom(POP_ORIGIN_entries)

(***************************************************************************)
(* &str helpers                                                            *)
(***************************************************************************)

\* str::starts_with
starts_with(s, p) ==
    /\ Len(s) >= Len(p)
    /\ SubSeq(s, 1, Len(p)) = p

(***************************************************************************)
(* get_origin_for_content_path                                             *)
(***************************************************************************)

\* Slip: the region test compares case-insensitively ("EU" selects EU).
get_origin_for_content_path_nocase(path, region) ==
    LET eu == region \in {"eu", "EU", "Eu", "eU"} IN
    IF starts_with(path, "games/") THEN
        IF eu THEN EU_GAMES_ORIGIN ELSE US_GAMES_ORIGIN
    ELSE IF starts_with(path, "art/") THEN
        IF eu THEN EU_ART_ORIGIN ELSE US_ART_ORIGIN
    ELSE IF starts_with(path, "music/") \/ starts_with(path, "audio/") THEN
        IF eu THEN EU_MUSIC_ORIGIN ELSE US_MUSIC_ORIGIN
    ELSE IF starts_with(path, "videos/") \/ starts_with(path, "video/") THEN
        IF eu THEN EU_VIDEOS_ORIGIN ELSE US_VIDEOS_ORIGIN
    ELSE IF starts_with(path, "comics/") THEN
        IF eu THEN EU_COMICS_ORIGIN ELSE US_COMICS_ORIGIN
    ELSE IF starts_with(path, "images-public/") THEN
        IF eu THEN EU_PUBLIC_IMAGES_ORIGIN ELSE US_PUBLIC_IMAGES_ORIGIN
    ELSE
        IF eu THEN EU_IMAGES_ORIGIN ELSE US_IMAGES_ORIGIN

\* Slip: the games prefix tested without its trailing slash.
get_origin_for_content_path_noslash(path, region) ==
    IF starts_with(path, "games") THEN
        IF region = "eu" THEN EU_GAMES_ORIGIN ELSE US_GAMES_ORIGIN
    ELSE IF starts_with(path, "art/") THEN
        IF region = "eu" THEN EU_ART_ORIGIN ELSE US_ART_ORIGIN
    ELSE IF starts_with(path, "music/") \/ starts_with(path, "audio/") THEN
        IF region = "eu" THEN EU_MUSIC_ORIGIN ELSE US_MUSIC_ORIGIN
    ELSE IF starts_with(path, "videos/") \/ starts_with(path, "video/") THEN
        IF region = "eu" THEN EU_VIDEOS_ORIGIN ELSE US_VIDEOS_ORIGIN
    ELSE IF starts_with(path, "comics/") THEN
        IF region = "eu" THEN EU_COMICS_ORIGIN ELSE US_COMICS_ORIGIN
    ELSE IF starts_with(path, "images-public/") THEN
        IF region = "eu" THEN EU_PUBLIC_IMAGES_ORIGIN ELSE US_PUBLIC_IMAGES_ORIGIN
    ELSE
        IF region = "eu" THEN EU_IMAGES_ORIGIN ELSE US_IMAGES_ORIGIN

\* Slip: the EU branch taken only once the lazily built POP table exists, so
\* that the result depends on what ran before the call.
get_origin_for_content_path_lazy(path, region) ==
    LET eu == region = "eu" /\ POP_ORIGIN.ready IN
    IF starts_with(path, "games/") THEN
        IF eu THEN EU_GAMES_ORIGIN ELSE US_GAMES_ORIGIN
    ELSE IF starts_with(path, "art/") THEN
        IF eu THEN EU_ART_ORIGIN ELSE US_ART_ORIGIN
    ELSE IF starts_with(path, "music/") \/ starts_with(path, "audio/") THEN
        IF eu THEN EU_MUSIC_ORIGIN ELSE US_MUSIC_ORIGIN
    ELSE IF starts_with(path, "videos/") \/ starts_with(path, "video/") THEN
        IF eu THEN EU_VIDEOS_ORIGIN ELSE US_VIDEOS_ORIGIN
    ELSE IF starts_with(path, "comics/") THEN
        IF eu THEN EU_COMICS_ORIGIN ELSE US_COMICS_ORIGIN
    ELSE IF starts_with(path, "images-public/") THEN
        IF eu THEN EU_PUBLIC_IMAGES_ORIGIN ELSE US_PUBLIC_IMAGES_ORIGIN
    ELSE
        IF eu THEN EU_IMAGES_ORIGIN ELSE US_IMAGES_ORIGIN

get_origin_for_content_path(path, region) ==
    IF starts_with(path, "games/") THEN
        IF region = "eu" THEN EU_GAMES_ORIGIN ELSE US_GAMES_ORIGIN
    ELSE IF starts_with(path, "art/") THEN
        IF region = "eu" THEN EU_ART_ORIGIN ELSE US_ART_ORIGIN
    ELSE IF starts_with(path, "music/") \/ starts_with(path, "audio/") THEN
        IF region = "eu" THEN EU_MUSIC_ORIGIN ELSE US_MUSIC_ORIGIN
    ELSE IF starts_with(path, "videos/") \/ starts_with(path, "video/") THEN
        IF region = "eu" THEN EU_VIDEOS_ORIGIN ELSE US_VIDEOS_ORIGIN
    ELSE IF starts_with(path, "comics/") THEN
        IF region = "eu" THEN EU_COMICS_ORIGIN ELSE US_COMICS_ORIGIN
    ELSE IF starts_with(path, "images-public/") THEN
        IF region = "eu" THEN EU_PUBLIC_IMAGES_ORIGIN ELSE US_PUBLIC_IMAGES_ORIGIN
    ELSE
        \* Default to images cache for unknown types
        IF region = "eu" THEN EU_IMAGES_ORIGIN ELSE US_IMAGES_ORIGIN

(***************************************************************************)
(* REGION_REGEX: ^s3\.([[:alnum:]\-]+)\.backblazeb2\.com$                  *)
(***************************************************************************)

\* Option<T>
None == [is_some |-> FALSE, value |-> ""]

Some(v) == [is_some |-> TRUE, value |-> v]

\* The POSIX class [[:alnum:]] (ASCII letters and digits).
Alnum ==
    {"a", "b", "c", "d", "e", "f", "g", "h", "i", "j", "k", "l", "m",
     "n", "o", "p", "q", "r", "s", "t", "u", "v", "w", "x", "y", "z",
     "A", "B", "C", "D", "E", "F", "G", "H", "I", "J", "K", "L", "M",
     "N", "O", "P", "Q", "R", "S", "T", "U", "V", "W", "X", "Y", "Z",
     "0", "1", "2", "3", "4", "5", "6", "7", "8", "9"}

\* Slip: the pattern without its closing "$".
REGION_REGEX_pattern_unanchored ==
    [anchor_start |-> TRUE,
     prefix       |-> "s3.",
     class        |-> Alnum \cup {"-"},
     suffix       |-> ".backblazeb2.com",
     anchor_end   |-> FALSE]

\* The compiled pattern: "^", the literal "s3.", the capture group of one or
\* more characters of the bracket class, the literal ".backblazeb2.com", "$".
REGION_REGEX_pattern ==
    [anchor_start |-> TRUE,
     prefix       |-> "s3.",
     class        |-> Alnum \cup {"-"},
     suffix       |-> ".backblazeb2.com",
     anchor_end   |-> TRUE]

\* The literal lit occurs in text at position i (1-based).
LiteralAt(text, i, lit) ==
    /\ i + Len(lit) - 1 <= Len(text)
    /\ SubSeq(text, i, i + Len(lit) - 1) = lit

\* Length of the run of class characters of text that starts at position i.
RECURSIVE ClassRun(_, _, _)
ClassRun(text, i, class) ==
    IF i <= Len(text) /\ SubSeq(text, i, i) \in class
    THEN 1 + ClassRun(text, i + 1, class)
    ELSE 0

\* Regex::captures(text), group 1: the leftmost match, the group taken
\* greedily and shortened only when the rest of the pattern fails.
captures(re, text) ==
    LET starts == IF re.anchor_start THEN {1} ELSE 1 .. (Len(text) + 1)
        \* the match that starts at s with a group of k characters
        ok(s, k) ==
            /\ LiteralAt(text, s, re.prefix)
            /\ k >= 1
            /\ k <= ClassRun(text, s + Len(re.prefix), re.class)
            /\ LiteralAt(text, s + Len(re.prefix) + k, re.suffix)
            /\ re.anchor_end =>
                   s + Len(re.prefix) + k + Len(re.suffix) = Len(text) + 1
        found == {m \in starts \X (1 .. Len(text)) : ok(m[1], m[2])}
    IN  IF found = {} THEN None
        ELSE LET m == CHOOSE a \in found :
                          \A b \in found :
                              \/ a[1] < b[1]
                              \/ a[1] = b[1] /\ a[2] >= b[2]
                 g == m[1] + Len(re.prefix)
             IN  Some(SubSeq(text, g, g + m[2] - 1))

(***************************************************************************)
(* POP -> region (the caller's side of POP_ORIGIN)                         *)
(***************************************************************************)

\* The region served by an Origin: its network backend names it.
RegionOf(origin) ==
    IF origin.backend_name = "eu_origin" THEN "eu" ELSE "us"

\* region_for_pop over a built table: the region of the POP's entry, and of
\* DEFAULT_POP's entry for a POP the table does not hold.
region_for_pop(table, pop) ==
    IF pop \in DOMAIN table
    THEN RegionOf(table[pop])
    ELSE RegionOf(table[DEFAULT_POP])

(***************************************************************************)
(* lazy_static cells and call records                                      *)
(***************************************************************************)

Threads == 1 .. NumThreads

\* A lazy_static cell before its first dereference, and after it.
Uninit == [ready |-> FALSE, value |-> <<>>]

Ready(v) == [ready |-> TRUE, value |-> v]

\* Deref of a lazy_static: the initialiser runs on the first access only.
Force(cell, init) == IF cell.ready THEN cell ELSE Ready(init)

\* A handler's call record; the fields a call does not use stay empty.
NO_ORIGIN == [backend_name |-> "", bucket_name |-> "", bucket_host |-> ""]

NoCall ==
    [op |-> "none", path |-> "", region |-> "", arg |-> "",
     origin |-> NO_ORIGIN, ret |-> None]

(***************************************************************************)
(* Inputs                                                                  *)
(***************************************************************************)

RECURSIVE Rep(_, _)
Rep(c, k) == IF k = 0 THEN "" ELSE c \o Rep(c, k - 1)

Rests == {Rep("x", k) : k \in 0 .. MaxRestLen}

Leads == {"", "/"}

Heads ==
    {"games/", "art/", "music/", "audio/", "videos/", "video/", "comics/",
     "images-public/", "", "GAMES/", "gamesX/", "games", "random/",
     "images/", "art/games/"}

Paths == {l \o h \o r : l \in Leads, h \in Heads, r \in Rests}

Regions == {"eu", "us", "EU", "", "xx"}

Pops == {"SJC", "AMS", "CPT", "WDC", "ZZZ", "sjc", ""}

Hosts ==
    {pre \o "s3." \o tok \o dom \o suf :
        pre \in {"", "x"},
        tok \in {"", "eu-central-003", "us-west-004", "a.b", "a_b", "A-9"},
        dom \in {".backblazeb2.com", ".backblazeb2xcom", ".amazonaws.com"},
        suf \in {"", "x"}}

\* The inputs of the concurrent handlers.
ConcPaths == {h \o r : h \in {"games/", ""}, r \in Rests}

ConcRegions == {"eu", "us"}

ConcPops == {"AMS", "ZZZ"}

(***************************************************************************)
(* Operations                                                              *)
(***************************************************************************)

Init ==
    /\ POP_ORIGIN = Uninit
    /\ REGION_REGEX = Uninit
    /\ calls = [t \in Threads |-> NoCall]

\* Handler t calls get_origin_for_content_path(path, region).
Resolve(t, path, region) ==
    /\ calls' = [calls EXCEPT ![t] =
                    [op |-> "resolve", path |-> path, region |-> region,
                     arg |-> "",
                     origin |-> get_origin_for_content_path(path, region),
                     ret |-> None]]
    /\ UNCHANGED <<POP_ORIGIN, REGION_REGEX>>

\* Handler t reads POP_ORIGIN.get(pop): the first access builds the table.
PopOriginGet(t, pop) ==
    /\ POP_ORIGIN' = Force(POP_ORIGIN, POP_ORIGIN_init)
    /\ LET table == POP_ORIGIN'.value
           hit == pop \in DOMAIN table
       IN  calls' = [calls EXCEPT ![t] =
                        [op |-> "pop_get", path |-> "", region |-> "",
                         arg |-> pop,
                         origin |-> IF hit THEN table[pop] ELSE NO_ORIGIN,
                         ret |-> IF hit THEN Some(pop) ELSE None]]
    /\ UNCHANGED REGION_REGEX

\* Handler t resolves the region of a POP code.
RegionForPop(t, pop) ==
    /\ POP_ORIGIN' = Force(POP_ORIGIN, POP_ORIGIN_init)
    /\ calls' = [calls EXCEPT ![t] =
                    [op |-> "region_for_pop", path |-> "", region |-> "",
                     arg |-> pop, origin |-> NO_ORIGIN,
                     ret |-> Some(region_for_pop(POP_ORIGIN'.value, pop))]]
    /\ UNCHANGED REGION_REGEX

\* Handler t runs REGION_REGEX.captures(host) and takes group 1: the first
\* access compiles the pattern.
RegionRegexCaptures(t, host) ==
    /\ REGION_REGEX' = Force(REGION_REGEX, REGION_REGEX_pattern)
    /\ calls' = [calls EXCEPT ![t] =
                    [op |-> "captures", path |-> "", region |-> "",
                     arg |-> host, origin |-> NO_ORIGIN,
                     ret |-> captures(REGION_REGEX'.value, host)]]
    /\ UNCHANGED POP_ORIGIN

\* One request handler, every enumerated input.
Next ==
    \/ \E path \in Paths, region \in Regions : Resolve(1, path, region)
    \/ \E pop \in Pops : PopOriginGet(1, pop)
    \/ \E pop \in Pops : RegionForPop(1, pop)
    \/ \E host \in Hosts : RegionRegexCaptures(1, host)

Spec == Init /\ [][Next]_vars

\* Concurrent request handlers, their calls interleaved in any order.
NextConc ==
    \/ \E t \in Threads, path \in ConcPaths, region \in ConcRegions :
           Resolve(t, path, region)
    \/ \E t \in Threads, pop \in ConcPops : PopOriginGet(t, pop)
    \/ \E t \in Threads : RegionRegexCaptures(t, "s3.eu-central-003.backblazeb2.com")

SpecConc == Init /\ [][NextConc]_vars

\* The single handler's latest call.
last == calls[1]

(***************************************************************************)
(* The catalog as a table, and the reference classifier the properties     *)
(* compare the resolver with                                               *)
(***************************************************************************)

\* The fourteen constants by category and region, as their names group them.
Catalog ==
    [Images       |-> [eu |-> EU_IMAGES_ORIGIN, us |-> US_IMAGES_ORIGIN],
     Games        |-> [eu |-> EU_GAMES_ORIGIN, us |-> US_GAMES_ORIGIN],
     Music        |-> [eu |-> EU_MUSIC_ORIGIN, us |-> US_MUSIC_ORIGIN],
     Comics       |-> [eu |-> EU_COMICS_ORIGIN, us |-> US_COMICS_ORIGIN],
     Video        |-> [eu |-> EU_VIDEOS_ORIGIN, us |-> US_VIDEOS_ORIGIN],
     Art          |-> [eu |-> EU_ART_ORIGIN, us |-> US_ART_ORIGIN],
     PublicImages |-> [eu |-> EU_PUBLIC_IMAGES_ORIGIN,
                       us |-> US_PUBLIC_IMAGES_ORIGIN]]

Categories == DOMAIN Catalog

CatalogOrigins == {Catalog[c][r] : c \in Categories, r \in {"eu", "us"}}

\* Reference classifier: the ordered prefix list, first match wins.
CategoryPrefixes ==
    << <<"games/", "Games">>, <<"art/", "Art">>, <<"music/", "Music">>,
       <<"audio/", "Music">>, <<"videos/", "Video">>, <<"video/", "Video">>,
       <<"comics/", "Comics">>, <<"images-public/", "PublicImages">> >>

IsPrefix(p, s) == \E n \in 0 .. Len(s) : SubSeq(s, 1, n) = p

RECURSIVE classify_from(_, _)
classify_from(path, i) ==
    IF i > Len(CategoryPrefixes) THEN "Images"
    ELSE IF IsPrefix(CategoryPrefixes[i][1], path) THEN CategoryPrefixes[i][2]
    ELSE classify_from(path, i + 1)

classify(path) == classify_from(path, 1)

\* The enumerated paths no category prefix matches.
ImagesPaths == {q \in Paths : classify(q) = "Images"}

WellFormed(o) ==
    /\ o.backend_name \in {"eu_origin", "us_origin"}
    /\ Len(o.bucket_name) > 0
    /\ Len(o.bucket_host) > 0

(***************************************************************************)
(* Properties                                                              *)
(***************************************************************************)

\* C1: whatever the path, the resolver returns an Origin whose backend_name
\* is "eu_origin" exactly when the region is the string "eu", and
\* "us_origin" for every other region value.
C1_BackendIffEu ==
    last.op = "resolve" =>
        /\ last.origin.backend_name = "eu_origin" <=> last.region = "eu"
        /\ last.region # "eu" => last.origin.backend_name = "us_origin"

C1_Witness ==
    /\ last.op = "resolve"
    /\ last.path = "comics/x"
    /\ last.region = "eu"
    /\ last.origin.backend_name = "eu_origin"

\* C2: the Origin the resolver returns belongs to the category the reference
\* classifier gives the path (ordered, case-sensitive, exact prefixes;
\* Images for every other path).
C2_CategoryIsClassify ==
    last.op = "resolve" =>
        /\ last.origin \in {Catalog[classify(last.path)][r] : r \in {"eu", "us"}}
        /\ \A c \in Categories \ {classify(last.path)} :
               last.origin \notin {Catalog[c][r] : r \in {"eu", "us"}}

C2_Witness ==
    /\ last.op = "resolve"
    /\ last.path = "gamesX/x"
    /\ classify(last.path) = "Images"
    /\ last.origin = US_IMAGES_ORIGIN

\* C3: the resolver returns one of the fourteen catalog Origins for every
\* path and region string, and US_IMAGES_ORIGIN when neither the path prefix
\* nor the region is recognised.
C3_AlwaysResolves ==
    last.op = "resolve" =>
        /\ last.origin \in CatalogOrigins
        /\ Cardinality(CatalogOrigins) = 14
        /\ (classify(last.path) = "Images" /\ last.region \notin {"eu", "us"})
               => last.origin = US_IMAGES_ORIGIN

C3_Witness ==
    /\ last.op = "resolve"
    /\ last.path = "random/x"
    /\ last.region = "EU"
    /\ last.origin = US_IMAGES_ORIGIN

C5_LegacyTableIsImages ==
    POP_ORIGIN.ready =>
        /\ EU_ORIGIN = EU_IMAGES_ORIGIN
        /\ US_ORIGIN = US_IMAGES_ORIGIN
        /\ \A pop \in DOMAIN POP_ORIGIN.value :
               /\ POP_ORIGIN.value[pop] \in {EU_IMAGES_ORIGIN, US_IMAGES_ORIGIN}
               /\ region_for_pop(POP_ORIGIN.value, pop)
                      = RegionOf(POP_ORIGIN.value[pop])
        /\ \A o \in {POP_ORIGIN.value[pop] : pop \in DOMAIN POP_ORIGIN.value} :
               \A path \in ImagesPaths :
                   LET g == get_origin_for_content_path(path, RegionOf(o))
                   IN  /\ o.backend_name = g.backend_name
                       /\ o.bucket_name = g.bucket_name
                       /\ o.bucket_host = g.bucket_host
        /\ (last.op = "pop_get" /\ last.ret.is_some) =>
               last.origin = get_origin_for_content_path(
                                 "",
                                 region_for_pop(POP_ORIGIN.value, last.arg))

C5_Witness ==
    /\ POP_ORIGIN.ready
    /\ last.op = "pop_get"
    /\ last.arg = "CPT"
    /\ last.origin = EU_IMAGES_ORIGIN

\* A path of each category, by its first listed prefix.
CanonicalPath ==
    [Images |-> "", Games |-> "games/", Music |-> "music/",
     Comics |-> "comics/", Video |-> "videos/", Art |-> "art/",
     PublicImages |-> "images-public/"]

\* C6: the resolver has an entry of its own for each of the 7 categories in
\* each of the 2 regions, and every Origin it returns, and every Origin of
\* the built POP table, has three non-empty fields and a backend_name among
\* "eu_origin" and "us_origin".
C6_CatalogComplete ==
    /\ Cardinality(Categories) = 7
    /\ \A c \in Categories, r \in {"eu", "us"} :
           LET o == get_origin_for_content_path(CanonicalPath[c], r)
           IN  /\ o = Catalog[c][r]
               /\ WellFormed(o)
               /\ \A c2 \in Categories, r2 \in {"eu", "us"} :
                      o = get_origin_for_content_path(CanonicalPath[c2], r2)
                          => (c2 = c /\ r2 = r)
    /\ last.op = "resolve" => WellFormed(last.origin)
    /\ POP_ORIGIN.ready =>
           \A pop \in DOMAIN POP_ORIGIN.value : WellFormed(POP_ORIGIN.value[pop])
    /\ (last.op = "pop_get" /\ last.ret.is_some) => WellFormed(last.origin)

C6_Witness ==
    /\ POP_ORIGIN.ready
    /\ last.op = "resolve"
    /\ last.path = "art/x"
    /\ last.region = "us"
    /\ last.origin = US_ART_ORIGIN

\* The token of a host of the form "s3." t ".backblazeb2.com", read off by
\* stripping both literals; no token for any other host.
HostToken(host) ==
    LET pre == "s3."
        suf == ".backblazeb2.com"
        n   == Len(host) - Len(pre) - Len(suf)
        t   == SubSeq(host, Len(pre) + 1, Len(pre) + n)
    IN  IF /\ n >= 1
           /\ host = pre \o t \o suf
           /\ \A i \in 1 .. n : SubSeq(t, i, i) \in Alnum \cup {"-"}
        THEN Some(t)
        ELSE None

\* C7: the regex yields the token t exactly for a host that is, as a whole,
\* "s3." t ".backblazeb2.com" with t a non-empty string of alphanumerics and
\* hyphens, and no match for every other host.
C7_RegionRegexExact ==
    last.op = "captures" =>
        /\ REGION_REGEX.ready
        /\ last.ret = HostToken(last.arg)

C7_Witness ==
    /\ last.op = "captures"
    /\ last.arg = "s3.eu-central-003.backblazeb2.com"
    /\ last.ret = Some("eu-central-003")

C9_HostMatchesRegion ==
    /\ \A o \in CatalogOrigins :
           LET m == captures(REGION_REGEX_pattern, o.bucket_host)
           IN  /\ m.is_some
               /\ starts_with(m.value, "eu-") <=> o.backend_name = "eu_origin"
               /\ starts_with(m.value, "us-") <=> o.backend_name = "us_origin"
    /\ \A o1, o2 \in CatalogOrigins :
           o1.backend_name = o2.backend_name => o1.bucket_host = o2.bucket_host
    /\ last.op = "captures" =>
           \A o \in CatalogOrigins :
               o.bucket_host = last.arg =>
                   /\ last.ret.is_some
                   /\ starts_with(last.ret.value, "eu-")
                          <=> o.backend_name = "eu_origin"

C9_Witness ==
    /\ last.op = "captures"
    /\ last.arg = US_MUSIC_ORIGIN.bucket_host
    /\ last.ret = Some("us-west-004")

\* C10: a path that carries a leading slash before a category prefix
\* resolves to the Origin of the same path without the slash.
C10_LeadingSlashIgnored ==
    (/\ last.op = "resolve"
     /\ \E i \in DOMAIN CategoryPrefixes :
            starts_with(last.path, "/" \o CategoryPrefixes[i][1]))
        => last.origin = get_origin_for_content_path(Tail(last.path), last.region)

====
